---- MODULE Spec2Model ----
(***************************************************************************)
(* A model of src/main.rs: the compilation of a regex-syntax Hir into an   *)
(* Nfa (regex_to_nfa), the breadth-first renumbering of its states         *)
(* (renumber_states) and the DOT rendering (print_dot), driven by main.    *)
(*                                                                         *)
(* A State is a usize; a Vec indexed by State is a function on 0..n-1.     *)
(* A Vec<Transition> is a sequence.  Values of one Rust enum are records   *)
(* of one shape: a Transition is [kind, input, to] with input = "" for     *)
(* Goto; an Hir is [kind, c, xs] with c the literal's character ("" when   *)
(* the node is no Literal) and xs the sequence of sub-expressions.         *)
(***************************************************************************)
EXTENDS Integers, Sequences, FiniteSets, TLC

VARIABLES hir, nfa, start, end, stack, pc, diagnostic,
          handed, state_mapping, bfs, output, perm, perm_mapping

vars == <<hir, nfa, start, end, stack, pc, diagnostic,
          handed, state_mapping, bfs, output, perm, perm_mapping>>

(***************************************************************************)
(* Bounds of the model.                                                    *)
(***************************************************************************)
\* The largest number of nodes of a syntax tree.
MaxNodes == 4
\* The longest input string tried against an automaton.
MaxStrLen == 3
\* The largest number of states of a hand-made automaton.
MaxStates == 3
\* The largest number of transitions of a hand-made automaton.
MaxTransitions == 2

\* The characters of the literals.
Alphabet == {"a", "b"}

(***************************************************************************)
(* The syntax tree: regex_syntax::hir::Hir as matched by regex_to_nfa.     *)
(***************************************************************************)
HirKinds ==
    {"Empty", "Literal", "Class", "Anchor", "WordBoundary", "Group",
     "Concat", "Alternation", "ZeroOrOne", "ZeroOrMore", "OneOrMore", "Range"}

\* The kinds with exactly one sub-expression: Group and the four RepetitionKinds.
UnaryKinds == {"Group", "ZeroOrOne", "ZeroOrMore", "OneOrMore", "Range"}

\* The kinds regex_to_nfa answers with unimplemented!.
UnimplementedKinds == {"Class", "Anchor", "WordBoundary", "Range"}

Node(kind, c, xs) == [kind |-> kind, c |-> c, xs |-> xs]

\* The characters a node of a kind may carry.
Labels(kind) == IF kind = "Literal" THEN Alphabet ELSE {""}

\* In gen, a sequence, gen[k + 1] = [t |-> the trees of exactly k nodes,
\*                                   f |-> the sequences of trees of k nodes in total],
\* where a Concat or an Alternation has at least minArity sub-expressions.
\* The sequences of sub-expressions, of m nodes in total, of a node of a kind.
Children(kind, m, gen, minArity) ==
    IF kind \in UnaryKinds
    THEN {<<x>> : x \in gen[m + 1].t}
    ELSE IF kind \in {"Concat", "Alternation"}
    THEN {ys \in gen[m + 1].f : Len(ys) >= minArity}
    ELSE IF m = 0 THEN {<<>>} ELSE {}

\* The trees of exactly n nodes, n >= 1, given gen up to n - 1.
TreesOf(n, gen, minArity) ==
    UNION {{Node(k, c, xs) : c \in Labels(k),
                             xs \in Children(k, n - 1, gen, minArity)} :
             k \in HirKinds}

\* gen, up to n - 1, extended to n.
ExtendGen(n, gen, minArity) ==
    LET ts == TreesOf(n, gen, minArity)
        fs == UNION {{<<x>> \o ys : x \in (IF k = n THEN ts ELSE gen[k + 1].t),
                                    ys \in gen[n - k + 1].f} :
                       k \in 1..n}
    IN  Append(gen, [t |-> ts, f |-> fs])

RECURSIVE TreeGen(_, _, _)
TreeGen(n, gen, minArity) ==
    IF Len(gen) > n
    THEN gen
    ELSE TreeGen(n, ExtendGen(Len(gen), gen, minArity), minArity)

\* h is a tree of at most n nodes, n >= 1, given gen up to n - 1.
IsTreeUpTo(h, n, gen, minArity) ==
    \E m \in 1..n, k \in HirKinds :
        \E c \in Labels(k), xs \in Children(k, m - 1, gen, minArity) :
            h = Node(k, c, xs)

\* The least number of sub-expressions of a Concat or an Alternation in the
\* trees the parser hands to main (Hir::concat and Hir::alternation give the
\* sub-expression itself for one, Empty for none), and in the values of the
\* Hir type, as regex_to_nfa may be called on directly.
ParsedArity == 2

HirArity == 0

ParsedGen == TreeGen(MaxNodes - 1, <<[t |-> {}, f |-> {<<>>}]>>, ParsedArity)

HirGen == TreeGen(MaxNodes - 1, <<[t |-> {}, f |-> {<<>>}]>>, HirArity)

RECURSIVE ContainsUnsupported(_)
ContainsUnsupported(r) ==
    \/ r.kind \in UnimplementedKinds
    \/ \E i \in 1..Len(r.xs) : ContainsUnsupported(r.xs[i])

(***************************************************************************)
(* Transition and Nfa.                                                     *)
(***************************************************************************)
Goto(to) == [kind |-> "Goto", input |-> "", to |-> to]

Consume(input, to) == [kind |-> "Consume", input |-> input, to |-> to]

\* Nfa::default
NfaDefault == [states |-> <<>>]

\* Nfa::num_states
num_states(n) == Cardinality(DOMAIN n.states)

\* The length read after the push in place of before it.
new_state_id_after_push(n) == num_states(n) + 1

\* Nfa::new_state: the identifier returned, and the automaton afterwards.
new_state_id(n) == num_states(n)

new_state(n) ==
    [states |-> [s \in 0..num_states(n) |->
                    IF s < num_states(n) THEN n.states[s] ELSE <<>>]]

\* Nfa::add_transition, for from an existing state (states[from] panics otherwise).
add_transition(n, from, t) ==
    [states |-> [n.states EXCEPT ![from] = Append(@, t)]]

(***************************************************************************)
(* Diagnostics: a panic message, as its sequence of words.                 *)
(***************************************************************************)
\* unimplemented!(...) of each unsupported kind.
UnimplementedMessage(kind) ==
    CASE kind = "Class" ->
            <<"not", "implemented:", "character", "classes", "not", "supported">>
      [] kind = "Anchor" ->
            <<"not", "implemented:", "anchors", "not", "supported">>
      [] kind = "WordBoundary" ->
            <<"not", "implemented:", "word", "boundary", "not", "supported">>
      [] kind = "Range" ->
            <<"not", "implemented">>

\* The panic of an index past the end of a Vec.
IndexPanicMessage == <<"index", "out", "of", "bounds">>

(***************************************************************************)
(* regex_to_nfa, one step at a time.  A frame of the stack is one call:    *)
(* its arguments r, start, end, the index i of the next sub-expression of  *)
(* its for loop, and at = "match" before the call's own work, "after"      *)
(* when its recursive call has returned and its work after it remains,     *)
(* "return" when nothing remains.                                          *)
(***************************************************************************)
Frame(r, s, e) == [r |-> r, start |-> s, end |-> e, i |-> 1, at |-> "match"]

Top == stack[Len(stack)]

Pop == SubSeq(stack, 1, Len(stack) - 1)

ReplaceTop(f) == [stack EXCEPT ![Len(stack)] = f]

Building == pc = "regex_to_nfa" /\ stack # <<>>

BuildFrame ==
    <<hir, start, end, state_mapping, bfs, output, perm, perm_mapping>>

\* nfa.add_transition(from, t), then the stack becomes newStack.
AddTransitionThen(from, t, newStack) ==
    IF from \in DOMAIN nfa.states
    THEN /\ nfa' = add_transition(nfa, from, t)
         /\ stack' = newStack
         /\ UNCHANGED <<pc, diagnostic>>
    ELSE /\ pc' = "panicked"
         /\ diagnostic' = IndexPanicMessage
         /\ UNCHANGED <<nfa, stack>>

\* HirKind::Empty
BuildEmpty ==
    /\ Building
    /\ Top.r.kind = "Empty"
    /\ AddTransitionThen(Top.start, Goto(Top.end), Pop)
    /\ UNCHANGED <<handed>>
    /\ UNCHANGED BuildFrame

\* HirKind::Literal
BuildLiteral ==
    /\ Building
    /\ Top.r.kind = "Literal"
    /\ AddTransitionThen(Top.start, Consume(Top.r.c, Top.end), Pop)
    /\ UNCHANGED <<handed>>
    /\ UNCHANGED BuildFrame

\* HirKind::Group: the call on g.hir, then the return.
BuildGroup ==
    /\ Building
    /\ Top.r.kind = "Group"
    /\ Top.at = "match"
    /\ stack' = Append(ReplaceTop([Top EXCEPT !.at = "return"]),
                       Frame(Top.r.xs[1], Top.start, Top.end))
    /\ UNCHANGED <<nfa, pc, diagnostic, handed>>
    /\ UNCHANGED BuildFrame

BuildReturn ==
    /\ Building
    /\ Top.at = "return"
    /\ stack' = Pop
    /\ UNCHANGED <<nfa, pc, diagnostic, handed>>
    /\ UNCHANGED BuildFrame

\* The assignment start = next left out.
BuildConcatNoAdvance ==
    /\ Building
    /\ Top.r.kind = "Concat"
    /\ IF Top.i > Len(Top.r.xs)
       THEN /\ stack' = Pop
            /\ UNCHANGED <<nfa, handed>>
       ELSE LET last == Top.i = Len(Top.r.xs)
                next == IF last THEN Top.end ELSE new_state_id(nfa)
            IN  /\ nfa' = IF last THEN nfa ELSE new_state(nfa)
                /\ handed' = IF last THEN handed ELSE Append(handed, next)
                /\ stack' = Append(
                       ReplaceTop([Top EXCEPT !.i = @ + 1]),
                       Frame(Top.r.xs[Top.i], Top.start, next))
    /\ UNCHANGED <<pc, diagnostic>>
    /\ UNCHANGED BuildFrame

\* A fresh state for the last sub-expression too, in place of end.
BuildConcatAlwaysFresh ==
    /\ Building
    /\ Top.r.kind = "Concat"
    /\ IF Top.i > Len(Top.r.xs)
       THEN /\ stack' = Pop
            /\ UNCHANGED <<nfa, handed>>
       ELSE LET next == new_state_id(nfa)
            IN  /\ nfa' = new_state(nfa)
                /\ handed' = Append(handed, next)
                /\ stack' = Append(
                       ReplaceTop([Top EXCEPT !.i = @ + 1, !.start = next]),
                       Frame(Top.r.xs[Top.i], Top.start, next))
    /\ UNCHANGED <<pc, diagnostic>>
    /\ UNCHANGED BuildFrame

\* HirKind::Concat: one turn of the for loop up to its recursive call (the
\* assignment start = next is the frame's start on return), or the loop's end.
BuildConcat ==
    /\ Building
    /\ Top.r.kind = "Concat"
    /\ IF Top.i > Len(Top.r.xs)
       THEN /\ stack' = Pop
            /\ UNCHANGED <<nfa, handed>>
       ELSE LET last == Top.i = Len(Top.r.xs)
                next == IF last THEN Top.end ELSE new_state_id(nfa)
            IN  /\ nfa' = IF last THEN nfa ELSE new_state(nfa)
                /\ handed' = IF last THEN handed ELSE Append(handed, next)
                /\ stack' = Append(
                       ReplaceTop([Top EXCEPT !.i = @ + 1, !.start = next]),
                       Frame(Top.r.xs[Top.i], Top.start, next))
    /\ UNCHANGED <<pc, diagnostic>>
    /\ UNCHANGED BuildFrame

\* HirKind::Alternation: one turn of the for loop, or its end.
BuildAlternation ==
    /\ Building
    /\ Top.r.kind = "Alternation"
    /\ IF Top.i > Len(Top.r.xs)
       THEN stack' = Pop
       ELSE stack' = Append(ReplaceTop([Top EXCEPT !.i = @ + 1]),
                            Frame(Top.r.xs[Top.i], Top.start, Top.end))
    /\ UNCHANGED <<nfa, pc, diagnostic, handed>>
    /\ UNCHANGED BuildFrame

\* RepetitionKind::ZeroOrOne
BuildZeroOrOne ==
    /\ Building
    /\ Top.r.kind = "ZeroOrOne"
    /\ IF Top.at = "match"
       THEN /\ stack' = Append(ReplaceTop([Top EXCEPT !.at = "after"]),
                               Frame(Top.r.xs[1], Top.start, Top.end))
            /\ UNCHANGED <<nfa, pc, diagnostic>>
       ELSE AddTransitionThen(Top.start, Goto(Top.end), Pop)
    /\ UNCHANGED <<handed>>
    /\ UNCHANGED BuildFrame

\* RepetitionKind::ZeroOrMore
BuildZeroOrMore ==
    /\ Building
    /\ Top.r.kind = "ZeroOrMore"
    /\ IF Top.at = "match"
       THEN /\ stack' = Append(ReplaceTop([Top EXCEPT !.at = "after"]),
                               Frame(Top.r.xs[1], Top.start, Top.start))
            /\ UNCHANGED <<nfa, pc, diagnostic>>
       ELSE AddTransitionThen(Top.start, Goto(Top.end), Pop)
    /\ UNCHANGED <<handed>>
    /\ UNCHANGED BuildFrame

\* RepetitionKind::OneOrMore
BuildOneOrMore ==
    /\ Building
    /\ Top.r.kind = "OneOrMore"
    /\ IF Top.at = "match"
       THEN /\ stack' = Append(ReplaceTop([Top EXCEPT !.at = "after"]),
                               Frame(Top.r.xs[1], Top.start, Top.end))
            /\ UNCHANGED <<nfa, pc, diagnostic>>
       ELSE AddTransitionThen(Top.end, Goto(Top.start), Pop)
    /\ UNCHANGED <<handed>>
    /\ UNCHANGED BuildFrame

\* The unsupported node skipped: the call returns and nothing is added.
BuildUnimplementedSkipped ==
    /\ Building
    /\ Top.r.kind \in UnimplementedKinds
    /\ stack' = Pop
    /\ UNCHANGED <<nfa, pc, diagnostic, handed>>
    /\ UNCHANGED BuildFrame

\* HirKind::Class, HirKind::Anchor, HirKind::WordBoundary and
\* RepetitionKind::Range: unimplemented! panics and the process ends. The
\* stack is kept as it was at the panic.
BuildUnimplemented ==
    /\ Building
    /\ Top.r.kind \in UnimplementedKinds
    /\ pc' = "panicked"
    /\ diagnostic' = UnimplementedMessage(Top.r.kind)
    /\ UNCHANGED <<nfa, stack, handed>>
    /\ UNCHANGED BuildFrame

(***************************************************************************)
(* renumber_states.  The record st holds the function's locals (state is   *)
(* the loop's variable, the start before the first turn); enq and deq log  *)
(* the arguments of queue.push_back and the results of queue.pop_front,    *)
(* in order.                                                               *)
(***************************************************************************)
\* The target of a transition (the match of the for loop's body).
target(t) == t.to

\* The locals before the while loop.
RenumberLocals(n, s) ==
    [state_mapping |-> [x \in DOMAIN n.states |-> 0],
     next_id |-> 0,
     queued |-> [x \in DOMAIN n.states |-> x = s],
     queue |-> <<s>>,
     state |-> s,
     enq |-> <<s>>,
     deq |-> <<>>]

\* One turn of the for loop over a state's transitions.
Visit(st, t) ==
    IF st.queued[target(t)]
    THEN st
    ELSE [st EXCEPT !.queue = Append(@, target(t)),
                    !.queued[target(t)] = TRUE,
                    !.enq = Append(@, target(t))]

\* The for loop over ts, from its i-th transition on.
RECURSIVE VisitAll(_, _, _)
VisitAll(st, ts, i) ==
    IF i > Len(ts) THEN st ELSE VisitAll(Visit(st, ts[i]), ts, i + 1)

\* A stack in place of the queue: pop_back for pop_front.
DequeueBack(st) ==
    LET last == st.queue[Len(st.queue)]
    IN  [st EXCEPT !.queue = SubSeq(@, 1, Len(@) - 1),
                   !.state = last,
                   !.next_id = @ + 1,
                   !.state_mapping[last] = st.next_id,
                   !.deq = Append(@, last)]

\* The queued state of the smallest internal identifier in place of the first.
DequeueMin(st) ==
    LET i == CHOOSE j \in 1..Len(st.queue) :
                 \A k \in 1..Len(st.queue) : st.queue[j] <= st.queue[k]
    IN  [st EXCEPT !.queue = SubSeq(@, 1, i - 1) \o SubSeq(@, i + 1, Len(@)),
                   !.state = st.queue[i],
                   !.next_id = @ + 1,
                   !.state_mapping[st.queue[i]] = st.next_id,
                   !.deq = Append(@, st.queue[i])]

\* queue.pop_front, into state, and the assignment of the next identifier.
Dequeue(st) ==
    [st EXCEPT !.queue = Tail(@),
               !.state = Head(st.queue),
               !.next_id = @ + 1,
               !.state_mapping[Head(st.queue)] = st.next_id,
               !.deq = Append(@, Head(st.queue))]

\* The while loop.
RECURSIVE RenumberLoop(_, _)
RenumberLoop(n, st) ==
    IF st.queue = <<>>
    THEN st
    ELSE LET popped == Dequeue(st)
         IN  RenumberLoop(n, VisitAll(popped, n.states[popped.state], 1))

RenumberRun(n, s) == RenumberLoop(n, RenumberLocals(n, s))

renumber_states(n, s) == RenumberRun(n, s).state_mapping

(***************************************************************************)
(* print_dot.  The output is the sequence of the printed lines, a line the *)
(* sequence of its parts, the numbers as println! formats them.            *)
(***************************************************************************)
LabelLine(state, label) == <<ToString(state), "[label=", ToString(label), "]">>

EntryLine(s) == <<"\"\"", "->", ToString(s)>>

ShapeLine(from, e) ==
    <<ToString(from), "[shape=", IF from = e THEN "doublecircle" ELSE "circle", "]">>

EdgeLine(from, t) ==
    <<ToString(from), "->", ToString(t.to), "[label=",
      IF t.kind = "Goto" THEN " " ELSE t.input, "]">>

\* The lines of the states from on: each state's shape, then its transitions.
RECURSIVE StateLines(_, _, _)
StateLines(n, from, e) ==
    IF from >= num_states(n)
    THEN <<>>
    ELSE <<ShapeLine(from, e)>>
         \o [i \in 1..Len(n.states[from]) |-> EdgeLine(from, n.states[from][i])]
         \o StateLines(n, from + 1, e)

print_dot(n, mapping, s, e) ==
    << <<"digraph", "{">>, <<"rankdir=LR">>, <<"\"\"", "[shape=none]">> >>
    \o [k \in 1..num_states(n) |-> LabelLine(k - 1, mapping[k - 1])]
    \o <<EntryLine(s)>>
    \o StateLines(n, 0, e)
    \o << <<"}">> >>

(***************************************************************************)
(* main.                                                                   *)
(***************************************************************************)
NoLog == [enq |-> <<>>, deq |-> <<>>]

\* let start = nfa.new_state();
MainNewStart ==
    /\ pc = "new_start"
    /\ start' = new_state_id(nfa)
    /\ nfa' = new_state(nfa)
    /\ handed' = Append(handed, new_state_id(nfa))
    /\ pc' = "new_end"
    /\ UNCHANGED <<hir, end, stack, diagnostic, state_mapping, bfs, output,
                   perm, perm_mapping>>

\* let end = nfa.new_state();
MainNewEnd ==
    /\ pc = "new_end"
    /\ end' = new_state_id(nfa)
    /\ nfa' = new_state(nfa)
    /\ handed' = Append(handed, new_state_id(nfa))
    /\ pc' = "call"
    /\ UNCHANGED <<hir, start, stack, diagnostic, state_mapping, bfs, output,
                   perm, perm_mapping>>

\* regex_to_nfa(&mut nfa, &hir, start, end): the call.
MainRegexToNfa ==
    /\ pc = "call"
    /\ stack' = <<Frame(hir, start, end)>>
    /\ pc' = "regex_to_nfa"
    /\ UNCHANGED <<hir, nfa, start, end, diagnostic, handed, state_mapping,
                   bfs, output, perm, perm_mapping>>

\* let state_mapping = renumber_states(&nfa, start), once regex_to_nfa has returned.
MainRenumberStates ==
    /\ pc = "regex_to_nfa"
    /\ stack = <<>>
    /\ LET run == RenumberRun(nfa, start)
       IN  /\ state_mapping' = renumber_states(nfa, start)
           /\ bfs' = [enq |-> run.enq, deq |-> run.deq]
    /\ pc' = "print_dot"
    /\ UNCHANGED <<hir, nfa, start, end, stack, diagnostic, handed, output,
                   perm, perm_mapping>>

\* print_dot(&nfa, &state_mapping, start, end);
MainPrintDot ==
    /\ pc = "print_dot"
    /\ output' = print_dot(nfa, state_mapping, start, end)
    /\ pc' = "done"
    /\ UNCHANGED <<hir, nfa, start, end, stack, diagnostic, handed,
                   state_mapping, bfs, perm, perm_mapping>>

InitWith(gen, minArity) ==
    /\ IsTreeUpTo(hir, MaxNodes, gen, minArity)
    /\ nfa = NfaDefault
    /\ start = -1
    /\ end = -1
    /\ stack = <<>>
    /\ pc = "new_start"
    /\ diagnostic = <<>>
    /\ handed = <<>>
    /\ state_mapping = <<>>
    /\ bfs = NoLog
    /\ output = <<>>
    /\ perm = <<>>
    /\ perm_mapping = <<>>

\* main on the tree of a parsed pattern.
Init == InitWith(ParsedGen, ParsedArity)

Next ==
    \/ MainNewStart
    \/ MainNewEnd
    \/ MainRegexToNfa
    \/ BuildEmpty
    \/ BuildLiteral
    \/ BuildGroup
    \/ BuildReturn
    \/ BuildConcat
    \/ BuildAlternation
    \/ BuildZeroOrOne
    \/ BuildZeroOrMore
    \/ BuildOneOrMore
    \/ BuildUnimplemented
    \/ MainRenumberStates
    \/ MainPrintDot

Spec == Init /\ [][Next]_vars

\* The same steps on any value of the Hir type.
InitHir == InitWith(HirGen, HirArity)

SpecHir == InitHir /\ [][Next]_vars

(***************************************************************************)
(* renumber_states and print_dot on automata made by hand, and             *)
(* renumber_states on the same automaton with its states permuted.         *)
(***************************************************************************)
\* The automaton of n states that add_transition builds from the additions
\* adds[i], adds[i+1], ..., each a pair <<from, transition>>, in order.
RECURSIVE NfaOf(_, _, _)
NfaOf(n, adds, i) ==
    IF i > Len(adds)
    THEN n
    ELSE NfaOf(add_transition(n, adds[i][1], adds[i][2]), adds, i + 1)

\* The automaton of count states and no transition.
NoTransition(count) == [states |-> [s \in 0..(count - 1) |-> <<>>]]

\* The additions to an automaton of count states.
Additions(count) ==
    (0..(count - 1))
        \X ({Goto(to) : to \in 0..(count - 1)}
            \cup {Consume("a", to) : to \in 0..(count - 1)})

\* a is an automaton of at most maxStates states and maxTransitions transitions.
IsHandMadeNfa(a, maxStates, maxTransitions) ==
    \E count \in 1..maxStates, k \in 0..maxTransitions :
        \E adds \in [1..k -> Additions(count)] :
            a = NfaOf(NoTransition(count), adds, 1)

StatePermutations(D) == {p \in [D -> D] : \A x, y \in D : p[x] = p[y] => x = y}

\* The automaton n with state s stored at p[s] and every target t now p[t].
PermuteNfa(n, p) ==
    [states |->
        [x \in DOMAIN n.states |->
            LET s == CHOOSE y \in DOMAIN n.states : p[y] = x
            IN  [i \in 1..Len(n.states[s]) |->
                    [n.states[s][i] EXCEPT !.to = p[@]]]]]

\* renumber_states on the automaton permuted by p, started at p[start].
RenumberPermuted ==
    /\ pc = "done"
    /\ perm_mapping = <<>> /\ perm = <<>>
    /\ \E p \in StatePermutations(DOMAIN nfa.states) :
          /\ perm' = p
          /\ perm_mapping' = renumber_states(PermuteNfa(nfa, p), p[start])
    /\ pc' = "permuted"
    /\ UNCHANGED <<hir, nfa, start, end, stack, diagnostic, handed,
                   state_mapping, bfs, output>>

\* hir is not read by these steps; end is read by print_dot alone, for the
\* shape of the accept state.
InitRenumber ==
    /\ hir = Node("Empty", "", <<>>)
    /\ IsHandMadeNfa(nfa, MaxStates, MaxTransitions)
    /\ start \in DOMAIN nfa.states
    /\ end = num_states(nfa) - 1
    /\ stack = <<>>
    /\ pc = "regex_to_nfa"
    /\ diagnostic = <<>>
    /\ handed = [i \in 1..num_states(nfa) |-> i - 1]
    /\ state_mapping = <<>>
    /\ bfs = NoLog
    /\ output = <<>>
    /\ perm = <<>>
    /\ perm_mapping = <<>>

NextRenumber ==
    \/ MainRenumberStates
    \/ MainPrintDot
    \/ RenumberPermuted

SpecRenumber == InitRenumber /\ [][NextRenumber]_vars

(***************************************************************************)
(* What the claims speak of: the language of a tree, the strings an        *)
(* automaton accepts, the states reachable from a state.                   *)
(***************************************************************************)
\* The strings over the alphabet of length n, and of length at most n.
RECURSIVE StringsOf(_)
StringsOf(n) ==
    IF n = 0 THEN {<<>>} ELSE {Append(w, c) : w \in StringsOf(n - 1), c \in Alphabet}

Strings(n) == UNION {StringsOf(k) : k \in 0..n}

Suffix(w, k) == SubSeq(w, k + 1, Len(w))

Prefix(w, k) == SubSeq(w, 1, k)

\* w is in the language the supported tree r denotes.
RECURSIVE InLang(_, _), InConcat(_, _, _), InStar(_, _)
InLang(r, w) ==
    CASE r.kind = "Empty" -> w = <<>>
      [] r.kind = "Literal" -> w = <<r.c>>
      [] r.kind = "Group" -> InLang(r.xs[1], w)
      [] r.kind = "Concat" -> InConcat(r.xs, 1, w)
      [] r.kind = "Alternation" -> \E i \in 1..Len(r.xs) : InLang(r.xs[i], w)
      [] r.kind = "ZeroOrOne" -> w = <<>> \/ InLang(r.xs[1], w)
      [] r.kind = "ZeroOrMore" -> InStar(r.xs[1], w)
      [] r.kind = "OneOrMore" ->
            \E k \in 0..Len(w) :
                InLang(r.xs[1], Prefix(w, k)) /\ InStar(r.xs[1], Suffix(w, k))
      [] OTHER -> FALSE

\* w is a string of xs[i], then one of xs[i+1], ..., then one of the last.
InConcat(xs, i, w) ==
    IF i > Len(xs)
    THEN w = <<>>
    ELSE \E k \in 0..Len(w) :
            InLang(xs[i], Prefix(w, k)) /\ InConcat(xs, i + 1, Suffix(w, k))

\* w is a sequence of non-empty strings of x.
InStar(x, w) ==
    \/ w = <<>>
    \/ \E k \in 1..Len(w) : InLang(x, Prefix(w, k)) /\ InStar(x, Suffix(w, k))

\* The existing states some transition of a state of S among ts leads to.
Targets(n, S, ts(_)) ==
    {t.to : t \in UNION {{n.states[x][i] : i \in ts(x)} : x \in S}}
    \cap DOMAIN n.states

AllOf(n, x) == 1..Len(n.states[x])

\* The states reachable from the states of S by transitions of any kind.
RECURSIVE ReachableFrom(_, _)
ReachableFrom(n, S) ==
    LET all(x) == AllOf(n, x)
        more == S \cup Targets(n, S, all)
    IN  IF more = S THEN S ELSE ReachableFrom(n, more)

Reachable(n, s) == ReachableFrom(n, {s} \cap DOMAIN n.states)

\* The states reachable from the states of S by epsilon moves alone.
RECURSIVE EpsilonClosure(_, _)
EpsilonClosure(n, S) ==
    LET gotos(x) == {i \in AllOf(n, x) : n.states[x][i].kind = "Goto"}
        more == S \cup Targets(n, S, gotos)
    IN  IF more = S THEN S ELSE EpsilonClosure(n, more)

\* The states a path from a state of S labelled w[i..] ends in.
RECURSIVE After(_, _, _, _)
After(n, S, w, i) ==
    LET closed == EpsilonClosure(n, S)
        on(x) == {j \in AllOf(n, x) :
                    n.states[x][j].kind = "Consume" /\ n.states[x][j].input = w[i]}
    IN  IF i > Len(w) THEN closed ELSE After(n, Targets(n, closed, on), w, i + 1)

\* w labels a path from s to e.
Accepts(n, s, e, w) == e \in After(n, {s} \cap DOMAIN n.states, w, 1)

\* regex_to_nfa has returned to main.
Returned == pc \in {"print_dot", "done"} \/ (pc = "regex_to_nfa" /\ stack = <<>>)

\* renumber_states has returned to main.
Renumbered == pc \in {"print_dot", "done"}

(***************************************************************************)
(* C1                                                                      *)
(***************************************************************************)
\* C1: once regex_to_nfa has returned on a supported tree with fresh start
\* and accept, a string labels a path from start to accept exactly when it
\* is in the language of the tree.
C1_AcceptsExactlyTheLanguage ==
    (Returned /\ ~ContainsUnsupported(hir)) =>
        \A w \in Strings(MaxStrLen) : Accepts(nfa, start, end, w) <=> InLang(hir, w)

(***************************************************************************)
(* C2                                                                      *)
(***************************************************************************)
\* C2: on a tree with a Class, Anchor, WordBoundary or Range node anywhere,
\* regex_to_nfa never returns to main, renumber_states and print_dot never
\* run, nothing is printed, and the only way the run ends is the panic of
\* an unimplemented! construct.
C2_UnsupportedAborts ==
    ContainsUnsupported(hir) =>
        /\ ~Returned
        /\ ~Renumbered
        /\ state_mapping = <<>>
        /\ bfs = NoLog
        /\ output = <<>>
        /\ pc = "panicked" =>
              diagnostic \in {UnimplementedMessage(k) : k \in UnimplementedKinds}
        /\ ~(ENABLED Next) => pc = "panicked"

\* The panic of an unsupported node met below the root, after a sibling
\* subtree was built into the automaton.
C2_Witness ==
    /\ pc = "panicked"
    /\ Len(stack) >= 2
    /\ \E s \in DOMAIN nfa.states : nfa.states[s] # <<>>

(***************************************************************************)
(* C3                                                                      *)
(***************************************************************************)
\* The phrases that name each unsupported construct.
ConstructNames(kind) ==
    CASE kind = "Class" ->
            {<<"character", "classes">>, <<"character", "class">>,
             <<"classes">>, <<"class">>}
      [] kind = "Anchor" -> {<<"anchors">>, <<"anchor">>}
      [] kind = "WordBoundary" ->
            {<<"word", "boundary">>, <<"word", "boundaries">>}
      [] kind = "Range" ->
            {<<"range">>, <<"ranges">>, <<"repetition">>, <<"repetitions">>,
             <<"bounded", "repetition">>, <<"counted", "repetition">>}

\* The words of phrase stand, in order and together, in the message.
Mentions(message, phrase) ==
    \E i \in 1..Len(message) :
        /\ i + Len(phrase) - 1 <= Len(message)
        /\ SubSeq(message, i, i + Len(phrase) - 1) = phrase

\* C3: the diagnostic of the panic on an unsupported node names the
\* construct of that node.
C3_DiagnosticNamesConstruct ==
    (pc = "panicked" /\ Top.r.kind \in UnimplementedKinds) =>
        \E phrase \in ConstructNames(Top.r.kind) : Mentions(diagnostic, phrase)

(***************************************************************************)
(* C4                                                                      *)
(***************************************************************************)
NoDuplicates(q) == \A i, j \in 1..Len(q) : q[i] = q[j] => i = j

Range(q) == {q[i] : i \in 1..Len(q)}

\* The first transition of s, in stored order, that leads to t.
FirstSlot(n, s, t) ==
    CHOOSE i \in AllOf(n, s) :
        /\ n.states[s][i].to = t
        /\ \A j \in AllOf(n, s) : n.states[s][j].to = t => i <= j

\* Among the reachable states with a transition to t, the one numbered first.
Discoverer(n, R, id, t) ==
    LET into == {s \in R : \E i \in AllOf(n, s) : n.states[s][i].to = t}
    IN  CHOOSE s \in into : \A r \in into : id[s] <= id[r]

\* When t is discovered: the number of its discoverer, then the slot of the
\* transition, whatever the kind of the transition.
DiscoveryBefore(n, R, id, t, u) ==
    LET dt == Discoverer(n, R, id, t)
        du == Discoverer(n, R, id, u)
    IN  \/ id[dt] < id[du]
        \/ id[dt] = id[du] /\ FirstSlot(n, dt, t) < FirstSlot(n, du, u)

\* C4: after renumber_states, the states pushed on the queue are the states
\* reachable from start, each pushed once; they are popped in the order
\* pushed and numbered 0, 1, ..., k-1 in that order, start first; and the
\* order is breadth-first in stored transition order: of two states, the one
\* discovered first (by the earlier numbered state, or by the earlier
\* transition of the same state) has the smaller number.
C4_BreadthFirstNumbering ==
    Renumbered =>
        LET R == Reachable(nfa, start)
        IN  /\ NoDuplicates(bfs.enq)
            /\ Range(bfs.enq) = R
            /\ bfs.deq = bfs.enq
            /\ \A i \in 1..Len(bfs.deq) : state_mapping[bfs.deq[i]] = i - 1
            /\ state_mapping[start] = 0
            /\ {state_mapping[s] : s \in R} = 0..(Cardinality(R) - 1)
            /\ \A t, u \in R \ {start} :
                  state_mapping[t] < state_mapping[u]
                      <=> DiscoveryBefore(nfa, R, state_mapping, t, u)

\* Three states numbered, two of them discovered from one state whose
\* transitions are an epsilon move and a consuming move.
C4_Witness ==
    /\ Renumbered
    /\ Cardinality(Reachable(nfa, start)) >= 3
    /\ \E s \in DOMAIN nfa.states :
          {nfa.states[s][i].kind : i \in AllOf(nfa, s)} = {"Goto", "Consume"}

(***************************************************************************)
(* C5                                                                      *)
(***************************************************************************)
\* C5: a state not reachable from start has a mapping entry that is the
\* canonical identifier of no reachable state, and no printed line is about it.
C5_UnreachableOmitted ==
    pc = "done" =>
        LET R == Reachable(nfa, start)
        IN  \A s \in DOMAIN nfa.states \ R :
                /\ state_mapping[s] \notin {state_mapping[r] : r \in R}
                /\ \A i \in 1..Len(output) : output[i][1] # ToString(s)

(***************************************************************************)
(* C6                                                                      *)
(***************************************************************************)
\* C6: for a permutation p of the internal identifiers, renumber_states on
\* the permuted automaton started at p[start] gives p[s] the number it gives
\* s in the original, for every s reachable from start.
C6_IndependentOfAllocationOrder ==
    pc = "permuted" =>
        \A s \in Reachable(nfa, start) : perm_mapping[perm[s]] = state_mapping[s]

\* A permutation that moves the start, on an automaton with three reachable states.
C6_Witness ==
    /\ pc = "permuted"
    /\ perm[start] # start
    /\ Cardinality(Reachable(nfa, start)) >= 3

PathState(i, n) == IF i = 0 THEN start ELSE IF i = n THEN end ELSE i + 1

\* C8: after regex_to_nfa on a Concat of n >= 1 Literals, the automaton has
\* n - 1 states beyond start and end, and its transitions are the n consuming
\* moves of one path start -> ... -> end labelled with the literals in order.
C8_LiteralConcatIsOnePath ==
    (/\ Returned
     /\ hir.kind = "Concat"
     /\ Len(hir.xs) >= 1
     /\ \A i \in 1..Len(hir.xs) : hir.xs[i].kind = "Literal") =>
        LET n == Len(hir.xs)
        IN  /\ DOMAIN nfa.states = 0..n
            /\ nfa.states[end] = <<>>
            /\ \A i \in 1..n :
                  nfa.states[PathState(i - 1, n)]
                      = <<Consume(hir.xs[i].c, PathState(i, n))>>

C8_Witness ==
    /\ Returned
    /\ hir.kind = "Concat"
    /\ Len(hir.xs) = 3
    /\ \A i \in 1..Len(hir.xs) : hir.xs[i].kind = "Literal"

(***************************************************************************)
(* C9                                                                      *)
(***************************************************************************)
\* C9: at every step, the states are 0 .. num_states-1, handed out in that
\* order one by one, every transition leaves an existing state (no index
\* panic) and leads to an existing state.
C9_NoDanglingTransition ==
    /\ DOMAIN nfa.states = 0..(num_states(nfa) - 1)
    /\ handed = [i \in 1..num_states(nfa) |-> i - 1]
    /\ diagnostic # IndexPanicMessage
    /\ \A s \in DOMAIN nfa.states :
          \A i \in AllOf(nfa, s) : nfa.states[s][i].to \in DOMAIN nfa.states

\* In the middle of regex_to_nfa, with a state of Concat and two transitions.
C9_Witness ==
    /\ Building
    /\ num_states(nfa) >= 3
    /\ \E s, t \in DOMAIN nfa.states : s # t /\ nfa.states[s] # <<>> /\ nfa.states[t] # <<>>

(***************************************************************************)
(* C10                                                                     *)
(***************************************************************************)
RECURSIVE NoEmptySequence(_)
NoEmptySequence(r) ==
    /\ r.kind \in {"Concat", "Alternation"} => r.xs # <<>>
    /\ \A i \in 1..Len(r.xs) : NoEmptySequence(r.xs[i])

\* C10: for a supported tree whose Concats and Alternations have a
\* sub-expression each, every state is reachable from start once regex_to_nfa
\* has returned, state_mapping is a bijection onto 0 .. num_states-1, and the
\* printed label of every state is its number, "0" for start alone.
C10_EveryStateReachable ==
    (~ContainsUnsupported(hir) /\ NoEmptySequence(hir)) =>
        /\ Returned => Reachable(nfa, start) = DOMAIN nfa.states
        /\ Renumbered =>
              /\ DOMAIN state_mapping = DOMAIN nfa.states
              /\ {state_mapping[s] : s \in DOMAIN nfa.states}
                     = 0..(num_states(nfa) - 1)
        /\ pc = "done" =>
              \A s \in DOMAIN nfa.states :
                  /\ output[4 + s] = LabelLine(s, state_mapping[s])
                  /\ s # start => output[4 + s][3] # "0"

\* Printed, with two states allocated by Concat.
C10_Witness ==
    /\ pc = "done"
    /\ ~ContainsUnsupported(hir)
    /\ NoEmptySequence(hir)
    /\ num_states(nfa) >= 4

====
